---- MODULE Spec2Model ----
(***************************************************************************)
(* LG ThinQ energy saver: the two main programs (threshold variant and     *)
(* fixed-target variant), config.Load and the thinq REST client, as one    *)
(* state machine.                                                          *)
(*                                                                         *)
(* A JSON number (Go float64) is an integer count of 1/TempScale degrees,  *)
(* so 24.5 degrees is 49 with TempScale = 2.  int(x) is TruncToInt.        *)
(***************************************************************************)
EXTENDS Integers, Sequences, FiniteSets, TLC

---------------------------------------------------------------------------
(* Bounds of the model *)

\* resolution of a reported temperature: units per degree
TempScale == 2
\* reported temperatures range over this many degrees around the policy values
TempWindow == 1
\* longest MIN_TEMPERATURE string
MaxEnvLen == 3
\* inbound messages handled in one run
MaxMsgs == 2
\* connection losses in one run
MaxLost == 1
MaxQueue == 2

(* Program constants *)

\* config.Load: default of MinTemperature, and the floor it clamps to
DefaultMinTemperature == 21
FloorMinTemperature == 21
\* fixed-target main: const targetTemperature
targetTemperature == 24
\* net/http status codes the client compares against
StatusOK == 200
StatusConflict == 409
StatusNotFound == 404

None == [k |-> "none"]

---------------------------------------------------------------------------
(* JSON values as json.Unmarshal into interface{} yields them *)

JAbsent == [k |-> "absent"]
JNull == [k |-> "null"]
JStr(x) == [k |-> "string", s |-> x]
JNum(x) == [k |-> "number", n |-> x]
JObj(x) == [k |-> "object", o |-> x]

\* v.(string), v.(float64), v.(map[string]interface{}): the ok flag
IsString(v) == v.k = "string"
IsNumber(v) == v.k = "number"
IsObject(v) == v.k = "object"

\* int(f) of a float64 f: truncation toward zero
TruncToInt(u) ==
    IF u >= 0 THEN u \div TempScale ELSE -((-u) \div TempScale)

---------------------------------------------------------------------------
(* strconv.Atoi on a string given as a sequence of characters *)

Digits == <<"0", "1", "2">>
EnvChars == {"-", "+", "0", "1", "2", "x"}

IsDigit(c) == \E i \in 1..Len(Digits) : Digits[i] = c
DigitVal(c) == (CHOOSE i \in 1..Len(Digits) : Digits[i] = c) - 1

RECURSIVE DigitsVal(_)
DigitsVal(s) ==
    IF s = <<>> THEN 0
    ELSE 10 * DigitsVal(SubSeq(s, 1, Len(s) - 1)) + DigitVal(s[Len(s)])

\* [ok, val]: ok is err == nil
Atoi(s) ==
    LET signed == s # <<>> /\ s[1] \in {"-", "+"}
        body == IF signed THEN Tail(s) ELSE s
    IN  IF body = <<>> \/ \E i \in 1..Len(body) : ~IsDigit(body[i])
        THEN [ok |-> FALSE, val |-> 0]
        ELSE [ok |-> TRUE,
              val |-> IF signed /\ s[1] = "-" THEN -DigitsVal(body) ELSE DigitsVal(body)]

RECURSIVE StringsUpTo(_)
StringsUpTo(n) ==
    IF n = 0 THEN {<<>>}
    ELSE LET shorter == StringsUpTo(n - 1)
         IN  shorter \cup {Append(s, c) : s \in {t \in shorter : Len(t) = n - 1}, c \in EnvChars}

\* an environment variable: unset, or a string
Unset == <<"<unset>">>
Getenv(v) == IF v = Unset THEN <<>> ELSE v

\* LoadMinTemperature without the clamp to the floor
LoadMinTemperatureNoClamp(env) ==
    LET tempStr == Getenv(env)
        parsed == Atoi(tempStr)
    IN  IF tempStr # <<>> /\ parsed.ok THEN parsed.val ELSE DefaultMinTemperature

\* config.Load lines 25-33: the MinTemperature it computes
LoadMinTemperature(env) ==
    LET tempStr == Getenv(env)
        parsed == Atoi(tempStr)
        minTemp == IF tempStr # <<>> /\ parsed.ok THEN parsed.val ELSE DefaultMinTemperature
    IN  IF minTemp < FloorMinTemperature THEN FloorMinTemperature ELSE minTemp

---------------------------------------------------------------------------
(* HTTP exchanges of thinq.Client *)

\* the statuses a response may carry; 500 stands for those the client accepts nowhere
StatusCodes == {StatusOK, StatusConflict, StatusNotFound, 500}

\* a body json.Unmarshal rejects for the target struct
BadJSON == [k |-> "badjson"]
\* a body that unmarshals; code is ErrorResponseNested.Error.Code ("" when absent)
JsonBody(c) == [k |-> "json", code |-> c]
AlreadySubscribedPush == "1207"
ErrorCodes == {"", AlreadySubscribedPush, "1000"}

\* httpClient.Do or io.ReadAll failed (also the 30 s client timeout)
NetErr == [k |-> "neterr"]
Http(st, b) == [k |-> "http", status |-> st, body |-> b]

ResponsesWith(bodies) == {NetErr} \cup {Http(st, b) : st \in StatusCodes, b \in bodies}
\* exchanges whose body the client never unmarshals
OpaqueResponses == ResponsesWith({JsonBody("")})
\* exchanges whose 200 body the client unmarshals
ParsedResponses == ResponsesWith({BadJSON, JsonBody("")})
\* the push subscription reads the error code of a 404 body
PushResponses == ResponsesWith({BadJSON} \cup {JsonBody(c) : c \in ErrorCodes})

\* error values: Nil is err == nil
Nil == "nil"
ErrExecute == "failed to execute request"
ErrStatus == "API request failed with status"
ErrAPICode == "API error (code)"
ErrParse == "failed to parse response"
ErrCSR == "failed to generate CSR"
ErrRegister == "failed to register client"
ErrDotenv == "error loading .env file"
ErrPATRequired == "THINQ_PAT is required"
ErrKeyPair == "failed to load client certificate"
ErrConnect == "connect token error"

\* Client.GetMQTTRoute, Client.GetDeviceList: the returned error
GetParsed(resp) ==
    IF resp = NetErr THEN ErrExecute
    ELSE IF resp.status # StatusOK THEN ErrStatus
    ELSE IF resp.body = BadJSON THEN ErrParse
    ELSE Nil

\* Client.registerClient: the returned error
registerClient(resp) ==
    IF resp = NetErr THEN ErrExecute
    ELSE IF resp.status # StatusOK /\ resp.status # StatusConflict THEN ErrStatus
    ELSE Nil

\* Client.SubscribeToDeviceEvents: the returned error
SubscribeToDeviceEvents(resp) ==
    IF resp = NetErr THEN ErrExecute
    ELSE IF resp.status # StatusOK /\ resp.status # StatusConflict THEN ErrStatus
    ELSE Nil

\* SubscribeToPushNotifications accepting 200 and 409 only
SubscribeToPushNotificationsNo404(resp) ==
    IF resp = NetErr THEN ErrExecute
    ELSE IF resp.status # StatusOK /\ resp.status # StatusConflict THEN ErrStatus
    ELSE Nil

\* Client.SubscribeToPushNotifications: the returned error
SubscribeToPushNotifications(resp) ==
    IF resp = NetErr THEN ErrExecute
    ELSE IF resp.status # StatusOK /\ resp.status # StatusConflict
            /\ resp.status # StatusNotFound THEN ErrStatus
    ELSE IF resp.status = StatusNotFound /\ resp.body # BadJSON
            /\ resp.body.code # AlreadySubscribedPush THEN ErrAPICode
    ELSE Nil

\* Client.SetTemperature: the returned error
SetTemperature(resp) ==
    IF resp = NetErr THEN ErrExecute
    ELSE IF resp.status # StatusOK THEN ErrStatus
    ELSE Nil

\* RequestCertificate taking any 200 answer without unmarshalling its body
RequestCertificateUnparsed(csrOK, resp) ==
    IF ~csrOK THEN ErrCSR
    ELSE IF resp = NetErr THEN ErrExecute
    ELSE IF resp.status # StatusOK THEN ErrStatus
    ELSE Nil

\* Client.GetMQTTCredentials after registerClient succeeded: generateCSR, then
\* the certificate exchange
RequestCertificate(csrOK, resp) ==
    IF ~csrOK THEN ErrCSR ELSE GetParsed(resp)

---------------------------------------------------------------------------
(* Devices, topics and inbound messages *)

Device(id, alias) == [DeviceID |-> id, Alias |-> alias]
D1 == Device("D1", "Living Room")
D2 == Device("D2", "")
\* what GET /devices may answer
DeviceLists == {<<>>, <<D1>>, <<D1, D2>>}

\* what the certificate exchange may return as subscriptions
TopicLists == {<<>>, <<"T1">>, <<"T1", "T2">>}

SeqRange(q) == {q[i] : i \in 1..Len(q)}

JBool == [k |-> "bool"]
DeviceStatus == "DEVICE_STATUS"

\* reported target temperatures, in units of 1/TempScale degree
ReportedTemps ==
    (-(TempScale + 1) .. 0)
    \cup (((FloorMinTemperature - TempWindow) * TempScale)
            .. ((targetTemperature + TempWindow) * TempScale))

PushTypeValues == {JAbsent, JNull, JStr(DeviceStatus), JStr("DEVICE_PUSH")}
DeviceIdValues == {JAbsent, JNull, JStr("D1"), JStr("D2")}
TargetValues ==
    {JAbsent, JNull, JBool, JStr("18"), JObj([value |-> JStr("18")])}
    \cup {JNum(u) : u \in ReportedTemps}
TemperatureValues == {JAbsent, JNull} \cup {JObj([targetTemperature |-> t]) : t \in TargetValues}
ReportValues == {JAbsent, JNull} \cup {JObj([temperature |-> t]) : t \in TemperatureValues}

\* a payload json.Unmarshal rejects as a map
Malformed == [k |-> "malformed"]
Event(pt, id, rep) == JObj([pushType |-> pt, deviceId |-> id, report |-> rep])
StatusEvent(id, tgt) ==
    Event(JStr(DeviceStatus), JStr(id), JObj([temperature |-> JObj([targetTemperature |-> tgt])]))

AllPayloads ==
    {Malformed}
    \cup {Event(pt, id, rep) : pt \in PushTypeValues, id \in DeviceIdValues, rep \in ReportValues}

Deg(d) == d * TempScale

\* the payloads the whole-program specification delivers
SamplePayloads ==
    { Malformed,
      Event(JStr("DEVICE_PUSH"), JStr("D1"),
            JObj([temperature |-> JObj([targetTemperature |-> JNum(Deg(FloorMinTemperature - 1))])])),
      Event(JStr(DeviceStatus), JStr("D1"), JObj([temperature |-> JObj([targetTemperature |-> JAbsent])])),
      StatusEvent("D1", JNum(Deg(FloorMinTemperature - 1))),
      StatusEvent("D2", JNum(Deg(FloorMinTemperature - 1))),
      StatusEvent("D1", JNum(Deg(targetTemperature))),
      StatusEvent("D1", JNum(Deg(targetTemperature + 1))) }

---------------------------------------------------------------------------
(* The message handlers built by createMessageHandler *)

\* createMessageHandler: the deviceAliases map (a later entry of the list
\* overwrites an earlier one with the same id)
AliasMap(devs) ==
    [id \in {devs[i].DeviceID : i \in 1..Len(devs)} |->
        devs[CHOOSE last \in 1..Len(devs) :
                /\ devs[last].DeviceID = id
                /\ \A j \in 1..Len(devs) : devs[j].DeviceID = id => j <= last].Alias]

\* ResolveAlias without the fallback to the raw id
ResolveAliasNoFallback(aliases, id) ==
    IF id \in DOMAIN aliases THEN aliases[id] ELSE ""

\* deviceAliases[deviceID] ("" for a missing key), then the fallback to the raw id
ResolveAlias(aliases, id) ==
    LET alias == IF id \in DOMAIN aliases THEN aliases[id] ELSE ""
    IN  IF alias = "" THEN id ELSE alias

NoCall == [call |-> FALSE]
Call(id, temp, alias) == [call |-> TRUE, deviceID |-> id, temperature |-> temp, alias |-> alias]

\* ReadTarget without the presence check of targetTemperature
ReadTargetUnchecked(payload) ==
    IF payload = Malformed THEN None
    ELSE LET event == payload.o
         IN  IF ~IsString(event.pushType) \/ event.pushType.s # DeviceStatus THEN None
             ELSE IF ~IsString(event.deviceId) THEN None
             ELSE IF ~IsObject(event.report) THEN None
             ELSE IF ~IsObject(event.report.o.temperature) THEN None
             ELSE IF ~IsNumber(event.report.o.temperature.o.targetTemperature) THEN JNum(0)
             ELSE event.report.o.temperature.o.targetTemperature

\* ReadTarget without the comparison of pushType with DEVICE_STATUS
ReadTargetAnyPush(payload) ==
    IF payload = Malformed THEN None
    ELSE LET event == payload.o
         IN  IF ~IsString(event.pushType) THEN None
             ELSE IF ~IsString(event.deviceId) THEN None
             ELSE IF ~IsObject(event.report) THEN None
             ELSE IF ~IsObject(event.report.o.temperature) THEN None
             ELSE IF ~IsNumber(event.report.o.temperature.o.targetTemperature) THEN None
             ELSE event.report.o.temperature.o.targetTemperature

\* ReadTarget converting a string target temperature to the number it spells
ReadTargetParsesStrings(payload) ==
    IF payload = Malformed THEN None
    ELSE LET event == payload.o
         IN  IF ~IsString(event.pushType) \/ event.pushType.s # DeviceStatus THEN None
             ELSE IF ~IsString(event.deviceId) THEN None
             ELSE IF ~IsObject(event.report) THEN None
             ELSE IF ~IsObject(event.report.o.temperature) THEN None
             ELSE IF IsString(event.report.o.temperature.o.targetTemperature)
                  THEN JNum(Deg(FloorMinTemperature - 3))
             ELSE IF ~IsNumber(event.report.o.temperature.o.targetTemperature) THEN None
             ELSE event.report.o.temperature.o.targetTemperature

\* the checks both handlers share, up to the target temperature: the
\* float64 read, or None on an early return
ReadTarget(payload) ==
    IF payload = Malformed THEN None
    ELSE LET event == payload.o
         IN  IF ~IsString(event.pushType) \/ event.pushType.s # DeviceStatus THEN None
             ELSE IF ~IsString(event.deviceId) THEN None
             ELSE IF ~IsObject(event.report) THEN None
             ELSE IF ~IsObject(event.report.o.temperature) THEN None
             ELSE IF ~IsNumber(event.report.o.temperature.o.targetTemperature) THEN None
             ELSE event.report.o.temperature.o.targetTemperature

\* ThresholdHandler with the device id read without its ok check: "" for an
\* absent or non-string field
ThresholdHandlerUncheckedId(aliases, minTemperature, payload) ==
    IF payload = Malformed THEN NoCall
    ELSE LET event == payload.o
             deviceID == IF IsString(event.deviceId) THEN event.deviceId.s ELSE ""
         IN  IF ~IsString(event.pushType) \/ event.pushType.s # DeviceStatus THEN NoCall
             ELSE IF ~IsObject(event.report) THEN NoCall
             ELSE IF ~IsObject(event.report.o.temperature) THEN NoCall
             ELSE IF ~IsNumber(event.report.o.temperature.o.targetTemperature) THEN NoCall
             ELSE IF TruncToInt(event.report.o.temperature.o.targetTemperature.n)
                        >= minTemperature THEN NoCall
             ELSE Call(deviceID, minTemperature, ResolveAlias(aliases, deviceID))

\* ThresholdHandler correcting every target other than the minimum
ThresholdHandlerLowers(aliases, minTemperature, payload) ==
    LET targetTemp == ReadTarget(payload)
    IN  IF targetTemp = None THEN NoCall
        ELSE IF TruncToInt(targetTemp.n) = minTemperature THEN NoCall
        ELSE Call(payload.o.deviceId.s, minTemperature,
                  ResolveAlias(aliases, payload.o.deviceId.s))

\* ThresholdHandler with > for >=
ThresholdHandlerStrict(aliases, minTemperature, payload) ==
    LET targetTemp == ReadTarget(payload)
    IN  IF targetTemp = None THEN NoCall
        ELSE IF TruncToInt(targetTemp.n) > minTemperature THEN NoCall
        ELSE Call(payload.o.deviceId.s, minTemperature,
                  ResolveAlias(aliases, payload.o.deviceId.s))

\* ThresholdHandler comparing with the floor 21 instead of the configured minimum
ThresholdHandlerFloorOnly(aliases, minTemperature, payload) ==
    LET targetTemp == ReadTarget(payload)
    IN  IF targetTemp = None THEN NoCall
        ELSE IF TruncToInt(targetTemp.n) >= FloorMinTemperature THEN NoCall
        ELSE Call(payload.o.deviceId.s, minTemperature,
                  ResolveAlias(aliases, payload.o.deviceId.s))

\* threshold main: the handler's decision for one message
ThresholdHandler(aliases, minTemperature, payload) ==
    LET targetTemp == ReadTarget(payload)
    IN  IF targetTemp = None THEN NoCall
        ELSE IF TruncToInt(targetTemp.n) >= minTemperature THEN NoCall
        ELSE Call(payload.o.deviceId.s, minTemperature,
                  ResolveAlias(aliases, payload.o.deviceId.s))

\* FixedHandler comparing the float64 itself, without int()
FixedHandlerExact(aliases, payload) ==
    LET targetTemp == ReadTarget(payload)
    IN  IF targetTemp = None THEN NoCall
        ELSE IF targetTemp.n = targetTemperature * TempScale THEN NoCall
        ELSE Call(payload.o.deviceId.s, targetTemperature,
                  ResolveAlias(aliases, payload.o.deviceId.s))

\* fixed-target main: the handler's decision for one message
FixedHandler(aliases, payload) ==
    LET targetTemp == ReadTarget(payload)
    IN  IF targetTemp = None THEN NoCall
        ELSE IF TruncToInt(targetTemp.n) = targetTemperature THEN NoCall
        ELSE Call(payload.o.deviceId.s, targetTemperature,
                  ResolveAlias(aliases, payload.o.deviceId.s))

---------------------------------------------------------------------------
(* State *)

VARIABLES
    variant,          \* which main program runs: "threshold" or "fixed"
    envMinTemp,       \* MIN_TEMPERATURE: Unset or a string
    envPAT,           \* THINQ_PAT is non-empty
    dotenvOK,         \* godotenv.Load finds the .env file
    pc,               \* position of main
    fatalMsg,         \* the line logFatal / log.Fatalf wrote before exiting
    cfg,              \* *config.Config returned by config.Load
    devices,          \* devices returned by GetDeviceList
    subIdx,           \* index of the subscription loop
    requests,         \* REST requests sent so far, per endpoint
    evCalls,          \* event-subscription requests sent, per device id
    pushCalls,        \* push-subscription requests sent, per device id
    warnings,         \* "Warning: Failed to subscribe ..." lines logged
    lastCall,         \* latest REST exchange of main: operation, response, error
    credentials,      \* *MQTTCredentials returned by GetMQTTCredentials
    handler,          \* values captured by the closure createMessageHandler returns
    conn,             \* MQTT connection
    onConnectPending, \* the OnConnect callback is due
    subTried,         \* topics client.Subscribe was called for on the current connection
    subscribed,       \* topics subscribed on the current connection
    active,           \* "Energy Saver Active!" announced on the current connection
    unsubIdx,         \* index of the unsubscribe loop
    unsubTried,       \* topics whose unsubscribe was attempted
    lastMsg,          \* latest handler invocation: payload and its control call
    nMsgs,            \* handler invocations so far, counted up to MaxMsgs
    nCmds,            \* SetTemperature calls so far
    failures,         \* devices with a "Failed to adjust temperature" line logged
    nLost,            \* "Connection lost" lines logged
    target,           \* the setpoint of device D1, where the specification follows it
    queue,            \* events received and waiting for the serial dispatch
    inFlight          \* the invocation blocked in its SetTemperature call

vars == <<variant, envMinTemp, envPAT, dotenvOK, pc, fatalMsg, cfg, devices, subIdx, requests,
          evCalls, pushCalls, warnings, lastCall, credentials, handler, conn,
          onConnectPending, subTried, subscribed, active, unsubIdx, unsubTried, lastMsg,
          nMsgs, nCmds, failures, nLost, target, queue, inFlight>>

envVars == <<variant, envMinTemp, envPAT, dotenvOK, target, queue, inFlight>>
subVars == <<subIdx, evCalls, pushCalls, warnings>>
mqttVars == <<conn, onConnectPending, subTried, subscribed, active, nLost>>
downVars == <<unsubIdx, unsubTried>>
msgVars == <<lastMsg, nMsgs, nCmds, failures>>

Variants == {"threshold", "fixed"}
DeviceIds == {"D1", "D2"}
NoRequests == [route |-> 0, devices |-> 0, register |-> 0, certificate |-> 0, connect |-> 0]

Exchange(op, dev, resp, err) == [op |-> op, dev |-> dev, resp |-> resp, err |-> err]

\* the state when main starts, MIN_TEMPERATURE drawn from envs
InitWith(envs) ==
    /\ variant \in Variants
    /\ envMinTemp \in envs
    /\ envPAT \in BOOLEAN
    /\ dotenvOK \in BOOLEAN
    /\ pc = "load"
    /\ fatalMsg = None
    /\ cfg = None
    /\ devices = <<>>
    /\ subIdx = 0
    /\ requests = NoRequests
    /\ evCalls = [d \in DeviceIds |-> 0]
    /\ pushCalls = [d \in DeviceIds |-> 0]
    /\ warnings = {}
    /\ lastCall = None
    /\ credentials = None
    /\ handler = None
    /\ conn = "disconnected"
    /\ onConnectPending = FALSE
    /\ subTried = {}
    /\ subscribed = {}
    /\ active = FALSE
    /\ unsubIdx = 0
    /\ unsubTried = {}
    /\ lastMsg = None
    /\ nMsgs = 0
    /\ nCmds = 0
    /\ failures = {}
    /\ nLost = 0
    /\ target = None
    /\ queue = <<>>
    /\ inFlight = None

EnvSample == {Unset, <<"2", "2">>}
Init == InitWith(EnvSample)

---------------------------------------------------------------------------
(* main: configuration, route, device list *)

\* logFatal / log.Fatalf: the line is written and the process exits
Fatal(line, err) ==
    /\ pc' = "fatal"
    /\ fatalMsg' = [line |-> line, err |-> err]

\* main moves on to its next statement
Goto(next) ==
    /\ pc' = next
    /\ fatalMsg' = fatalMsg

\* config.Load
LoadConfig ==
    /\ pc = "load"
    /\ IF dotenvOK /\ envPAT
       THEN /\ cfg' = [MinTemperature |-> LoadMinTemperature(envMinTemp)]
            /\ Goto("route")
       ELSE /\ Fatal("Failed to load configuration",
                     IF dotenvOK THEN ErrPATRequired ELSE ErrDotenv)
            /\ cfg' = cfg
    /\ UNCHANGED <<envVars, devices, requests, subVars, lastCall, credentials, handler,
                   mqttVars, downVars, msgVars>>

\* client.GetMQTTRoute()
GetMQTTRoute ==
    /\ pc = "route"
    /\ \E resp \in ParsedResponses :
        /\ lastCall' = Exchange("route", "", resp, GetParsed(resp))
        /\ IF GetParsed(resp) = Nil THEN Goto("devices")
           ELSE Fatal("Failed to get MQTT route", GetParsed(resp))
    /\ requests' = [requests EXCEPT !.route = @ + 1]
    /\ UNCHANGED <<envVars, cfg, devices, subVars, credentials, handler, mqttVars,
                   downVars, msgVars>>

\* GetDeviceList with an empty device list treated as a fatal error
GetDeviceListEmptyFatal ==
    /\ pc = "devices"
    /\ \E resp \in ParsedResponses, devs \in DeviceLists :
        /\ lastCall' = Exchange("devices", "", resp, GetParsed(resp))
        /\ IF GetParsed(resp) = Nil /\ devs # <<>>
           THEN /\ devices' = devs
                /\ Goto("subEvents")
                /\ subIdx' = 1
           ELSE /\ Fatal("Failed to get device list", GetParsed(resp))
                /\ UNCHANGED <<devices, subIdx>>
    /\ requests' = [requests EXCEPT !.devices = @ + 1]
    /\ UNCHANGED <<envVars, cfg, evCalls, pushCalls, warnings, credentials, handler,
                   mqttVars, downVars, msgVars>>

\* GetDeviceList with main going on to the credentials without the loop
GetDeviceListSkipLoop ==
    /\ pc = "devices"
    /\ \E resp \in ParsedResponses, devs \in DeviceLists :
        /\ lastCall' = Exchange("devices", "", resp, GetParsed(resp))
        /\ IF GetParsed(resp) = Nil
           THEN /\ devices' = devs
                /\ Goto("register")
                /\ subIdx' = 0
           ELSE /\ Fatal("Failed to get device list", GetParsed(resp))
                /\ UNCHANGED <<devices, subIdx>>
    /\ requests' = [requests EXCEPT !.devices = @ + 1]
    /\ UNCHANGED <<envVars, cfg, evCalls, pushCalls, warnings, credentials, handler,
                   mqttVars, downVars, msgVars>>

\* client.GetDeviceList(), and the entry into the subscription loop
GetDeviceList ==
    /\ pc = "devices"
    /\ \E resp \in ParsedResponses, devs \in DeviceLists :
        /\ lastCall' = Exchange("devices", "", resp, GetParsed(resp))
        /\ IF GetParsed(resp) = Nil
           THEN /\ devices' = devs
                /\ Goto(IF devs = <<>> THEN "register" ELSE "subEvents")
                /\ subIdx' = IF devs = <<>> THEN 0 ELSE 1
           ELSE /\ Fatal("Failed to get device list", GetParsed(resp))
                /\ UNCHANGED <<devices, subIdx>>
    /\ requests' = [requests EXCEPT !.devices = @ + 1]
    /\ UNCHANGED <<envVars, cfg, evCalls, pushCalls, warnings, credentials, handler,
                   mqttVars, downVars, msgVars>>

---------------------------------------------------------------------------
(* main: the subscription loop *)

Warning(op, dev) == [op |-> op, dev |-> dev]

\* SubscribeEvents with a failure skipping the device's push subscription
SubscribeEventsSkipPush ==
    /\ pc = "subEvents"
    /\ LET id == devices[subIdx].DeviceID
       IN  /\ \E resp \in OpaqueResponses :
                LET err == SubscribeToDeviceEvents(resp)
                IN  /\ lastCall' = Exchange("events", id, resp, err)
                    /\ warnings' = IF err # Nil THEN warnings \cup {Warning("events", id)}
                                   ELSE warnings
                    /\ IF err = Nil THEN Goto("subPush") /\ subIdx' = subIdx
                       ELSE IF subIdx < Len(devices)
                       THEN Goto("subEvents") /\ subIdx' = subIdx + 1
                       ELSE Goto("register") /\ subIdx' = subIdx
           /\ evCalls' = [evCalls EXCEPT ![id] = @ + 1]
    /\ UNCHANGED <<envVars, cfg, devices, requests, pushCalls, credentials,
                   handler, mqttVars, downVars, msgVars>>

\* client.SubscribeToDeviceEvents(device.DeviceID) and its warning
SubscribeEvents ==
    /\ pc = "subEvents"
    /\ LET id == devices[subIdx].DeviceID
       IN  /\ \E resp \in OpaqueResponses :
                LET err == SubscribeToDeviceEvents(resp)
                IN  /\ lastCall' = Exchange("events", id, resp, err)
                    /\ warnings' = IF err # Nil THEN warnings \cup {Warning("events", id)}
                                   ELSE warnings
           /\ evCalls' = [evCalls EXCEPT ![id] = @ + 1]
    /\ Goto("subPush")
    /\ UNCHANGED <<envVars, cfg, devices, subIdx, requests, pushCalls, credentials,
                   handler, mqttVars, downVars, msgVars>>

\* client.SubscribeToPushNotifications(device.DeviceID), its warning, and the
\* loop's step to the next device
SubscribePush ==
    /\ pc = "subPush"
    /\ LET id == devices[subIdx].DeviceID
       IN  /\ \E resp \in PushResponses :
                LET err == SubscribeToPushNotifications(resp)
                IN  /\ lastCall' = Exchange("push", id, resp, err)
                    /\ warnings' = IF err # Nil THEN warnings \cup {Warning("push", id)}
                                   ELSE warnings
           /\ pushCalls' = [pushCalls EXCEPT ![id] = @ + 1]
    /\ IF subIdx < Len(devices)
       THEN /\ subIdx' = subIdx + 1
            /\ Goto("subEvents")
       ELSE /\ subIdx' = subIdx
            /\ Goto("register")
    /\ UNCHANGED <<envVars, cfg, devices, requests, evCalls, credentials, handler,
                   mqttVars, downVars, msgVars>>

---------------------------------------------------------------------------
(* main: credentials, TLS, handler, connection *)

\* RegisterClient with a failed registration only logged and main going on
RegisterClientNonFatal ==
    /\ pc = "register"
    /\ \E resp \in OpaqueResponses :
        lastCall' = Exchange("register", "", resp, registerClient(resp))
    /\ Goto("certificate")
    /\ requests' = [requests EXCEPT !.register = @ + 1]
    /\ UNCHANGED <<envVars, cfg, devices, subVars, credentials, handler, mqttVars,
                   downVars, msgVars>>

\* GetMQTTCredentials step 1: c.registerClient()
RegisterClient ==
    /\ pc = "register"
    /\ \E resp \in OpaqueResponses :
        /\ lastCall' = Exchange("register", "", resp, registerClient(resp))
        /\ IF registerClient(resp) = Nil THEN Goto("certificate")
           ELSE Fatal("Failed to get MQTT credentials", ErrRegister)
    /\ requests' = [requests EXCEPT !.register = @ + 1]
    /\ UNCHANGED <<envVars, cfg, devices, subVars, credentials, handler, mqttVars,
                   downVars, msgVars>>

\* GetMQTTCredentials steps 2 and 3: generateCSR and POST /client/certificate
GetCertificate ==
    /\ pc = "certificate"
    /\ \E csrOK \in BOOLEAN, resp \in ParsedResponses, topics \in TopicLists, pemOK \in BOOLEAN :
        LET err == RequestCertificate(csrOK, resp)
        IN  /\ IF csrOK
               THEN /\ lastCall' = Exchange("certificate", "", resp, err)
                    /\ requests' = [requests EXCEPT !.certificate = @ + 1]
               ELSE UNCHANGED <<lastCall, requests>>
            /\ IF err = Nil
               THEN /\ credentials' = [Subscriptions |-> topics, pemOK |-> pemOK]
                    /\ Goto("tls")
               ELSE /\ Fatal("Failed to get MQTT credentials", err)
                    /\ credentials' = credentials
    /\ UNCHANGED <<envVars, cfg, devices, subVars, handler, mqttVars, downVars, msgVars>>

\* createTLSConfig(credentials), then createMessageHandler(client, devices, ...)
CreateHandler ==
    /\ pc = "tls"
    /\ IF credentials.pemOK
       THEN /\ handler' = IF variant = "threshold"
                          THEN [deviceAliases |-> AliasMap(devices),
                                minTemperature |-> cfg.MinTemperature]
                          ELSE [deviceAliases |-> AliasMap(devices)]
            /\ Goto("connect")
       ELSE /\ Fatal("Failed to create TLS config", ErrKeyPair)
            /\ handler' = handler
    /\ UNCHANGED <<envVars, cfg, devices, requests, subVars, lastCall, credentials,
                   mqttVars, downVars, msgVars>>

\* mqttClient.Connect() and token.Wait()
Connect ==
    /\ pc = "connect"
    /\ \E ok \in BOOLEAN :
        IF ok
        THEN /\ conn' = "connected"
             /\ onConnectPending' = TRUE
             /\ Goto("wait")
        ELSE /\ Fatal("Failed to connect to MQTT broker", ErrConnect)
             /\ UNCHANGED <<conn, onConnectPending>>
    /\ requests' = [requests EXCEPT !.connect = @ + 1]
    /\ UNCHANGED <<envVars, cfg, devices, subVars, lastCall, credentials, handler,
                   subTried, subscribed, active, nLost, downVars, msgVars>>

\* the OnConnectHandler: subscribe to every topic, then announce
OnConnect ==
    /\ conn = "connected"
    /\ onConnectPending
    /\ \E ok \in SUBSET SeqRange(credentials.Subscriptions) :
        subscribed' = subscribed \cup ok
    /\ subTried' = SeqRange(credentials.Subscriptions)
    /\ active' = TRUE
    /\ onConnectPending' = FALSE
    /\ UNCHANGED <<envVars, pc, fatalMsg, cfg, devices, requests, subVars, lastCall, credentials,
                   handler, conn, nLost, downVars, msgVars>>

\* the ConnectionLostHandler
ConnectionLost ==
    /\ conn = "connected"
    /\ nLost < MaxLost
    /\ conn' = "lost"
    /\ nLost' = nLost + 1
    /\ subTried' = {}
    /\ subscribed' = {}
    /\ active' = FALSE
    /\ onConnectPending' = FALSE
    /\ UNCHANGED <<envVars, pc, fatalMsg, cfg, devices, requests, subVars, lastCall, credentials,
                   handler, downVars, msgVars>>

\* Reconnect without the OnConnect callback being run again
ReconnectNoCallback ==
    /\ conn = "lost"
    /\ pc \in {"wait", "unsubscribe", "disconnect"}
    /\ conn' = "connected"
    /\ UNCHANGED <<envVars, pc, fatalMsg, cfg, devices, requests, subVars, lastCall, credentials,
                   handler, onConnectPending, subTried, subscribed, active, nLost, downVars,
                   msgVars>>

\* the transport library reconnects (its default); OnConnect is due again
Reconnect ==
    /\ conn = "lost"
    /\ pc \in {"wait", "unsubscribe", "disconnect"}
    /\ conn' = "connected"
    /\ onConnectPending' = TRUE
    /\ UNCHANGED <<envVars, pc, fatalMsg, cfg, devices, requests, subVars, lastCall, credentials,
                   handler, subTried, subscribed, active, nLost, downVars, msgVars>>

---------------------------------------------------------------------------
(* The message handler *)

\* Decide with the closure giving up on a device whose adjustment failed before
DecideSkipsFailed(payload) ==
    LET decision == IF variant = "threshold"
                    THEN ThresholdHandler(handler.deviceAliases, handler.minTemperature, payload)
                    ELSE FixedHandler(handler.deviceAliases, payload)
    IN  IF decision.call /\ decision.deviceID \in failures THEN NoCall ELSE decision

\* Decide with the closure left unusable by a payload it could not parse
DecideStuckAfterMalformed(payload) ==
    IF lastMsg # None /\ lastMsg.payload = Malformed THEN NoCall
    ELSE IF variant = "threshold"
    THEN ThresholdHandler(handler.deviceAliases, handler.minTemperature, payload)
    ELSE FixedHandler(handler.deviceAliases, payload)

\* Decide with a cooldown: no command for the device the previous invocation
\* sent a command to
DecideWithCooldown(payload) ==
    LET decision == IF variant = "threshold"
                    THEN ThresholdHandler(handler.deviceAliases, handler.minTemperature, payload)
                    ELSE FixedHandler(handler.deviceAliases, payload)
    IN  IF /\ decision.call
           /\ lastMsg # None
           /\ lastMsg.call # None
           /\ lastMsg.call.deviceID = decision.deviceID
        THEN NoCall ELSE decision

\* the closure's decision for one payload
Decide(payload) ==
    IF variant = "threshold"
    THEN ThresholdHandler(handler.deviceAliases, handler.minTemperature, payload)
    ELSE FixedHandler(handler.deviceAliases, payload)

Handled(payload, decision, resp) ==
    [payload |-> payload,
     call |-> IF decision.call
              THEN [deviceID |-> decision.deviceID, temperature |-> decision.temperature,
                    alias |-> decision.alias, resp |-> resp, err |-> SetTemperature(resp)]
              ELSE None]

\* log lines one invocation writes: the adjusting line before the call and the
\* line with its outcome; every early return writes none
LogLines(decision) == IF decision.call THEN 2 ELSE 0

\* the devices with a failure line after the invocation's SetTemperature call
Failures(decision, resp) ==
    IF decision.call /\ SetTemperature(resp) # Nil
    THEN failures \cup {decision.deviceID}
    ELSE failures

\* SetTemperature calls one invocation makes for its decision
ControlCallsRetry(decision, resp) ==
    IF ~decision.call THEN 0 ELSE IF SetTemperature(resp) # Nil THEN 2 ELSE 1

ControlCalls(decision, resp) ==
    IF decision.call THEN 1 ELSE 0

\* HandleMessage with the closure caching the raw id of an unknown device in
\* its alias table
HandleMessageCachesAlias(payloads) ==
    /\ conn = "connected"
    /\ subscribed # {}
    /\ nMsgs < MaxMsgs
    /\ \E payload \in payloads :
        LET decision == Decide(payload)
        IN  IF decision.call
            THEN \E resp \in OpaqueResponses :
                    /\ lastMsg' = Handled(payload, decision, resp)
                    /\ nCmds' = nCmds + ControlCalls(decision, resp)
                    /\ failures' = Failures(decision, resp)
                    /\ handler' = [handler EXCEPT !.deviceAliases =
                            [id \in DOMAIN @ \cup {decision.deviceID} |-> decision.alias]]
            ELSE /\ lastMsg' = Handled(payload, decision, None)
                 /\ nCmds' = nCmds + ControlCalls(decision, None)
                 /\ failures' = failures
                 /\ handler' = handler
    /\ nMsgs' = nMsgs + 1
    /\ UNCHANGED <<envVars, pc, fatalMsg, cfg, devices, requests, subVars, lastCall, credentials,
                   mqttVars, downVars>>

\* one invocation of the handler on a payload drawn from payloads
HandleMessage(payloads) ==
    /\ conn = "connected"
    /\ subscribed # {}
    /\ nMsgs < MaxMsgs
    /\ \E payload \in payloads :
        LET decision == Decide(payload)
        IN  IF decision.call
            THEN \E resp \in OpaqueResponses :
                    /\ lastMsg' = Handled(payload, decision, resp)
                    /\ nCmds' = nCmds + ControlCalls(decision, resp)
                    /\ failures' = Failures(decision, resp)
            ELSE /\ lastMsg' = Handled(payload, decision, None)
                 /\ nCmds' = nCmds + ControlCalls(decision, None)
                 /\ failures' = failures
    /\ nMsgs' = nMsgs + 1
    /\ UNCHANGED <<envVars, pc, fatalMsg, cfg, devices, requests, subVars, lastCall, credentials,
                   handler, mqttVars, downVars>>

---------------------------------------------------------------------------
(* main: shutdown *)

\* <-sigChan
Signal ==
    /\ pc = "wait"
    /\ IF variant = "threshold" /\ credentials.Subscriptions # <<>>
       THEN /\ Goto("unsubscribe")
            /\ unsubIdx' = 1
       ELSE /\ Goto("disconnect")
            /\ unsubIdx' = unsubIdx
    /\ UNCHANGED <<envVars, cfg, devices, requests, subVars, lastCall, credentials,
                   handler, mqttVars, unsubTried, msgVars>>

\* threshold main: mqttClient.Unsubscribe(topic) for the next topic
Unsubscribe ==
    /\ pc = "unsubscribe"
    /\ LET topic == credentials.Subscriptions[unsubIdx]
       IN  /\ unsubTried' = unsubTried \cup {topic}
           /\ \E ok \in BOOLEAN :
                subscribed' = IF ok /\ conn = "connected" THEN subscribed \ {topic}
                              ELSE subscribed
    /\ IF unsubIdx < Len(credentials.Subscriptions)
       THEN /\ unsubIdx' = unsubIdx + 1
            /\ Goto("unsubscribe")
       ELSE /\ unsubIdx' = unsubIdx
            /\ Goto("disconnect")
    /\ UNCHANGED <<envVars, cfg, devices, requests, subVars, lastCall, credentials,
                   handler, conn, onConnectPending, subTried, active, nLost, msgVars>>

\* mqttClient.Disconnect(250); main returns
Disconnect ==
    /\ pc = "disconnect"
    /\ Goto("done")
    /\ conn' = "closed"
    /\ subTried' = {}
    /\ subscribed' = {}
    /\ active' = FALSE
    /\ onConnectPending' = FALSE
    /\ UNCHANGED <<envVars, cfg, devices, requests, subVars, lastCall, credentials,
                   handler, nLost, downVars, msgVars>>

---------------------------------------------------------------------------
(* Specifications *)

DeliverSample == HandleMessage(SamplePayloads)
DeliverAny == HandleMessage(AllPayloads)

\* the whole program
Next ==
    \/ LoadConfig
    \/ GetMQTTRoute
    \/ GetDeviceList
    \/ SubscribeEvents
    \/ SubscribePush
    \/ RegisterClient
    \/ GetCertificate
    \/ CreateHandler
    \/ Connect
    \/ OnConnect
    \/ ConnectionLost
    \/ Reconnect
    \/ DeliverSample
    \/ Signal
    \/ Unsubscribe
    \/ Disconnect

Spec == Init /\ [][Next]_vars

\* config.Load over every MIN_TEMPERATURE string up to MaxEnvLen
InitLoad == InitWith({Unset} \cup StringsUpTo(MaxEnvLen))
NextLoad == LoadConfig
SpecLoad == InitLoad /\ [][NextLoad]_vars

\* the message handler over every payload shape, from the state main waits in
\* after a startup without warnings: one device D1, one topic, session active
InitHandler ==
    /\ variant \in Variants
    /\ envMinTemp \in EnvSample
    /\ envPAT = TRUE
    /\ dotenvOK = TRUE
    /\ pc = "wait"
    /\ fatalMsg = None
    /\ cfg = [MinTemperature |-> LoadMinTemperature(envMinTemp)]
    /\ devices = <<D1>>
    /\ subIdx = 1
    /\ requests = [route |-> 1, devices |-> 1, register |-> 1, certificate |-> 1, connect |-> 1]
    /\ evCalls = [d \in DeviceIds |-> IF d = D1.DeviceID THEN 1 ELSE 0]
    /\ pushCalls = [d \in DeviceIds |-> IF d = D1.DeviceID THEN 1 ELSE 0]
    /\ warnings = {}
    /\ lastCall = Exchange("certificate", "", Http(StatusOK, JsonBody("")), Nil)
    /\ credentials = [Subscriptions |-> <<"T1">>, pemOK |-> TRUE]
    /\ handler = IF variant = "threshold"
                 THEN [deviceAliases |-> AliasMap(devices),
                       minTemperature |-> cfg.MinTemperature]
                 ELSE [deviceAliases |-> AliasMap(devices)]
    /\ conn = "connected"
    /\ onConnectPending = FALSE
    /\ subTried = {"T1"}
    /\ subscribed = {"T1"}
    /\ active = TRUE
    /\ unsubIdx = 0
    /\ unsubTried = {}
    /\ lastMsg = None
    /\ nMsgs = 0
    /\ nCmds = 0
    /\ failures = {}
    /\ nLost = 0
    /\ target = None
    /\ queue = <<>>
    /\ inFlight = None
NextHandler == DeliverAny
SpecHandler == InitHandler /\ [][NextHandler]_vars

\* the threshold agent and the device D1 it watches: the device reports its
\* setpoint again and again, a successful SetTemperature moves the setpoint;
\* the invocations are counted up to MaxMsgs
Counted(n, k) == IF n + k <= MaxMsgs THEN n + k ELSE MaxMsgs

\* setpoints of the device: a degree below the floor, just below it, the floor,
\* and one and two degrees above it
Setpoints ==
    {Deg(FloorMinTemperature - 1), Deg(FloorMinTemperature) - 1, Deg(FloorMinTemperature),
     Deg(FloorMinTemperature + 1), Deg(FloorMinTemperature + 2)}

InitLive ==
    /\ variant = "threshold"
    /\ envMinTemp \in EnvSample
    /\ envPAT = TRUE
    /\ dotenvOK = TRUE
    /\ pc = "wait"
    /\ fatalMsg = None
    /\ cfg = [MinTemperature |-> LoadMinTemperature(envMinTemp)]
    /\ devices = <<D1>>
    /\ subIdx = 1
    /\ requests = [route |-> 1, devices |-> 1, register |-> 1, certificate |-> 1, connect |-> 1]
    /\ evCalls = [d \in DeviceIds |-> IF d = D1.DeviceID THEN 1 ELSE 0]
    /\ pushCalls = [d \in DeviceIds |-> IF d = D1.DeviceID THEN 1 ELSE 0]
    /\ warnings = {}
    /\ lastCall = Exchange("certificate", "", Http(StatusOK, JsonBody("")), Nil)
    /\ credentials = [Subscriptions |-> <<"T1">>, pemOK |-> TRUE]
    /\ handler = [deviceAliases |-> AliasMap(devices), minTemperature |-> cfg.MinTemperature]
    /\ conn = "connected"
    /\ onConnectPending = FALSE
    /\ subTried = {"T1"}
    /\ subscribed = {"T1"}
    /\ active = TRUE
    /\ unsubIdx = 0
    /\ unsubTried = {}
    /\ lastMsg = None
    /\ nMsgs = 0
    /\ nCmds = 0
    /\ failures = {}
    /\ nLost = 0
    /\ target \in Setpoints
    /\ queue = <<>>
    /\ inFlight = None

\* D1 reports its setpoint in a device-status event and the handler runs on it;
\* a SetTemperature call answered with 200 sets the device to the value sent
ReportStatus ==
    /\ conn = "connected"
    /\ subscribed # {}
    /\ LET payload == StatusEvent(D1.DeviceID, JNum(target))
           decision == Decide(payload)
       IN  IF decision.call
           THEN \E resp \in OpaqueResponses :
                    /\ lastMsg' = Handled(payload, decision, resp)
                    /\ nCmds' = Counted(nCmds, ControlCalls(decision, resp))
                    /\ failures' = Failures(decision, resp)
                    /\ target' = IF SetTemperature(resp) = Nil
                                 THEN Deg(decision.temperature) ELSE target
           ELSE /\ lastMsg' = Handled(payload, decision, None)
                /\ nCmds' = Counted(nCmds, ControlCalls(decision, None))
                /\ failures' = failures
                /\ target' = target
    /\ nMsgs' = Counted(nMsgs, 1)
    /\ UNCHANGED <<variant, envMinTemp, envPAT, dotenvOK, pc, fatalMsg, cfg, devices, requests,
                   subVars, lastCall, credentials, handler, mqttVars, downVars, queue, inFlight>>

\* somebody changes the setpoint of D1 at the device
SetpointChanged ==
    /\ \E u \in Setpoints \ {target} : target' = u
    /\ UNCHANGED <<variant, envMinTemp, envPAT, dotenvOK, pc, fatalMsg, cfg, devices, requests,
                   subVars, lastCall, credentials, handler, mqttVars, downVars, msgVars,
                   queue, inFlight>>

NextLive ==
    \/ ReportStatus
    \/ SetpointChanged

\* the status events of the device keep being delivered
SpecLive == InitLive /\ [][NextLive]_vars /\ WF_vars(ReportStatus)

\* the handler with its blocking control call, behind the library's serial
\* dispatch: the queue holds the events of a finite number of changes made at
\* the devices; a device whose SetTemperature call succeeded reports the value
\* it was set to
Queued(payload, echo) == [payload |-> payload, echo |-> echo]

ExternalEvents ==
    {Malformed,
     StatusEvent("D1", JNum(Deg(FloorMinTemperature - 1))),
     StatusEvent("D2", JNum(Deg(FloorMinTemperature - 1))),
     StatusEvent("D1", JNum(Deg(targetTemperature))),
     StatusEvent("D2", JNum(Deg(targetTemperature + 1)))}

QueuesUpTo(n) ==
    UNION {[1..len -> {Queued(e, FALSE) : e \in ExternalEvents}] : len \in 0..n}

\* Outcomes of an HTTP client without Timeout: a silent backend gives nothing
OutcomesNoTimeout(answers) == IF answers THEN OpaqueResponses ELSE {}

\* what httpClient.Do gives the caller: the backend's answer, or, when the
\* backend stays silent, the error of the 30 s client timeout
Outcomes(answers) == IF answers THEN OpaqueResponses ELSE {NetErr}

\* the status event a device sends after the command of decision set it
Echo(decision) ==
    Queued(StatusEvent(decision.deviceID, JNum(Deg(decision.temperature))), TRUE)

InitDispatch ==
    /\ variant \in Variants
    /\ envMinTemp \in EnvSample
    /\ envPAT = TRUE
    /\ dotenvOK = TRUE
    /\ pc = "wait"
    /\ fatalMsg = None
    /\ cfg = [MinTemperature |-> LoadMinTemperature(envMinTemp)]
    /\ devices = <<D1, D2>>
    /\ subIdx = 2
    /\ requests = [route |-> 1, devices |-> 1, register |-> 1, certificate |-> 1, connect |-> 1]
    /\ evCalls = [d \in DeviceIds |-> 1]
    /\ pushCalls = [d \in DeviceIds |-> 1]
    /\ warnings = {}
    /\ lastCall = Exchange("certificate", "", Http(StatusOK, JsonBody("")), Nil)
    /\ credentials = [Subscriptions |-> <<"T1">>, pemOK |-> TRUE]
    /\ handler = IF variant = "threshold"
                 THEN [deviceAliases |-> AliasMap(devices),
                       minTemperature |-> cfg.MinTemperature]
                 ELSE [deviceAliases |-> AliasMap(devices)]
    /\ conn = "connected"
    /\ onConnectPending = FALSE
    /\ subTried = {"T1"}
    /\ subscribed = {"T1"}
    /\ active = TRUE
    /\ unsubIdx = 0
    /\ unsubTried = {}
    /\ lastMsg = None
    /\ nMsgs = 0
    /\ nCmds = 0
    /\ failures = {}
    /\ nLost = 0
    /\ target = None
    /\ queue \in QueuesUpTo(MaxQueue)
    /\ inFlight = None

\* the library hands the next event to the handler, which returns early or
\* enters client.SetTemperature; the backend will answer that call or not
Dispatch ==
    /\ conn = "connected"
    /\ subscribed # {}
    /\ inFlight = None
    /\ queue # <<>>
    /\ LET payload == Head(queue).payload
           decision == Decide(payload)
       IN  IF decision.call
           THEN /\ \E answers \in BOOLEAN :
                    inFlight' = [payload |-> payload, echo |-> Head(queue).echo,
                                 answers |-> answers]
                /\ UNCHANGED msgVars
           ELSE /\ inFlight' = inFlight
                /\ lastMsg' = Handled(payload, decision, None)
                /\ nMsgs' = Counted(nMsgs, 1)
                /\ UNCHANGED <<nCmds, failures>>
    /\ queue' = Tail(queue)
    /\ UNCHANGED <<variant, envMinTemp, envPAT, dotenvOK, target, pc, fatalMsg, cfg, devices,
                   requests, subVars, lastCall, credentials, handler, mqttVars, downVars>>

\* client.SetTemperature returns and the handler logs the outcome and returns
CallReturns ==
    /\ inFlight # None
    /\ LET payload == inFlight.payload
           decision == Decide(payload)
       IN  \E resp \in Outcomes(inFlight.answers) :
                /\ lastMsg' = Handled(payload, decision, resp)
                /\ nCmds' = Counted(nCmds, ControlCalls(decision, resp))
                /\ failures' = Failures(decision, resp)
                /\ queue' = IF SetTemperature(resp) = Nil
                            THEN Append(queue, Echo(decision)) ELSE queue
    /\ nMsgs' = Counted(nMsgs, 1)
    /\ inFlight' = None
    /\ UNCHANGED <<variant, envMinTemp, envPAT, dotenvOK, target, pc, fatalMsg, cfg, devices,
                   requests, subVars, lastCall, credentials, handler, mqttVars, downVars>>

NextDispatch ==
    \/ Dispatch
    \/ CallReturns

\* the library keeps dispatching and the HTTP client keeps its timeout
SpecDispatch ==
    InitDispatch /\ [][NextDispatch]_vars /\ WF_vars(Dispatch) /\ WF_vars(CallReturns)

---------------------------------------------------------------------------
(* Claims about the message handler *)

\* the latest invocation handled a device-status event for a string device id
\* that carries a numeric target temperature
StatusWithNumber ==
    /\ lastMsg # None
    /\ lastMsg.payload # Malformed
    /\ lastMsg.payload.o.pushType = JStr(DeviceStatus)
    /\ IsString(lastMsg.payload.o.deviceId)
    /\ IsObject(lastMsg.payload.o.report)
    /\ IsObject(lastMsg.payload.o.report.o.temperature)
    /\ IsNumber(lastMsg.payload.o.report.o.temperature.o.targetTemperature)

\* the reported target of the latest invocation, in units of 1/TempScale degree
Reported == lastMsg.payload.o.report.o.temperature.o.targetTemperature.n

Issued == lastMsg # None /\ lastMsg.call # None

\* C1: threshold variant: for a device-status event reporting the number t and
\* the floor m, SetTemperature is called iff t < m, and the value sent is m
C1_ThresholdIffBelow ==
    (variant = "threshold" /\ StatusWithNumber) =>
        /\ Issued <=> Reported < cfg.MinTemperature * TempScale
        /\ Issued => lastMsg.call.temperature = cfg.MinTemperature

\* C1 witness: a fractional report just below a floor above 21 was corrected
C1_Witness ==
    /\ variant = "threshold"
    /\ StatusWithNumber
    /\ cfg.MinTemperature > FloorMinTemperature
    /\ Reported % TempScale # 0
    /\ Reported > (cfg.MinTemperature - 1) * TempScale
    /\ Reported < cfg.MinTemperature * TempScale
    /\ Issued
    /\ lastMsg.call.temperature = cfg.MinTemperature

PolicyViolated(u) ==
    IF variant = "threshold"
    THEN u < cfg.MinTemperature * TempScale
    ELSE u < targetTemperature * TempScale \/ u >= (targetTemperature + 1) * TempScale

\* C3: a control command is only issued for an event that carries a number at
\* report.temperature.targetTemperature for which the policy predicate holds,
\* and is addressed to that event's device id
C3_CommandOnlyForViolatingReport ==
    Issued =>
        /\ StatusWithNumber
        /\ PolicyViolated(Reported)
        /\ lastMsg.call.deviceID = lastMsg.payload.o.deviceId.s

\* C3 witness: a command was issued for a device outside the directory
C3_Witness ==
    /\ Issued
    /\ lastMsg.call.deviceID = "D2"
    /\ lastMsg.payload.o.deviceId = JStr("D2")

\* C4: an event whose pushType is absent, not a string or another string than
\* DEVICE_STATUS issues no control command
C4_NonStatusNeverCommands ==
    (lastMsg # None /\ lastMsg.payload # Malformed
        /\ lastMsg.payload.o.pushType # JStr(DeviceStatus)) => ~Issued

\* C4 witness: a DEVICE_PUSH event for D1 with a violating target was handled
\* without a command
C4_Witness ==
    /\ lastMsg # None
    /\ lastMsg.payload # Malformed
    /\ lastMsg.payload.o.pushType = JStr("DEVICE_PUSH")
    /\ lastMsg.payload.o.deviceId = JStr("D1")
    /\ IsObject(lastMsg.payload.o.report)
    /\ IsObject(lastMsg.payload.o.report.o.temperature)
    /\ IsNumber(lastMsg.payload.o.report.o.temperature.o.targetTemperature)
    /\ PolicyViolated(Reported)
    /\ ~Issued

\* C5: one handler invocation issues at most one SetTemperature call, so the
\* control commands never outnumber the messages handled
C5_AtMostOneCommandPerMessage ==
    /\ [](nCmds <= nMsgs)
    /\ [][/\ nCmds' >= nCmds
          /\ nCmds' - nCmds <= nMsgs' - nMsgs
          /\ nMsgs' - nMsgs <= 1]_vars

\* C5 witness: every message so far issued a command and the latest one failed
C5_Witness ==
    /\ nMsgs = MaxMsgs
    /\ nCmds = nMsgs
    /\ Issued
    /\ lastMsg.call.err # Nil

\* supports C6: the floor the threshold handler captured is never below 21
HandlerFloorAtLeast21 ==
    (handler # None /\ variant = "threshold") =>
        /\ handler.minTemperature >= FloorMinTemperature
        /\ handler.minTemperature = cfg.MinTemperature

---------------------------------------------------------------------------
(* Claims about config.Load *)

\* C6: after a successful Load, MinTemperature is at least 21: an integer below
\* 21 gives 21, an integer from 21 on is kept, an unset, empty or non-numeric
\* MIN_TEMPERATURE gives 21
C6_MinTemperatureClamped ==
    cfg # None =>
        LET tempStr == Getenv(envMinTemp)
            parsed == Atoi(tempStr)
            isInt == tempStr # <<>> /\ parsed.ok
        IN  /\ cfg.MinTemperature >= 21
            /\ ~isInt => cfg.MinTemperature = 21
            /\ (isInt /\ parsed.val < 21) => cfg.MinTemperature = 21
            /\ (isInt /\ parsed.val >= 21) => cfg.MinTemperature = parsed.val

\* C6 witness: a positive integer below 21 was loaded as 21
C6_Witness ==
    /\ cfg # None
    /\ Getenv(envMinTemp) # <<>>
    /\ Atoi(Getenv(envMinTemp)).ok
    /\ Atoi(Getenv(envMinTemp)).val > 0
    /\ Atoi(Getenv(envMinTemp)).val < 21
    /\ cfg.MinTemperature = 21

---------------------------------------------------------------------------
(* Claims about the subscriptions and the startup order *)

LastIsHttp(ops) ==
    /\ lastCall # None
    /\ lastCall.op \in ops
    /\ lastCall.resp # NetErr

\* the latest exchange is one the claims call an idempotent conflict, or a 200
BenignResponse ==
    /\ LastIsHttp({"register", "events", "push"})
    /\ \/ lastCall.resp.status \in {StatusOK, StatusConflict}
       \/ /\ lastCall.op = "push"
          /\ lastCall.resp.status = StatusNotFound
          /\ lastCall.resp.body = JsonBody(AlreadySubscribedPush)

C8_NotFoundOnlyWith1207 ==
    (LastIsHttp({"push"}) /\ lastCall.resp.status = StatusNotFound) =>
        (lastCall.err = Nil <=> lastCall.resp.body = JsonBody(AlreadySubscribedPush))

LoopStarted == pc \in {"subEvents", "subPush"} \/ \E d \in DeviceIds : evCalls[d] > 0
LoopComplete ==
    \A i \in 1..Len(devices) :
        evCalls[devices[i].DeviceID] = 1 /\ pushCalls[devices[i].DeviceID] = 1
PastLoop == requests.register > 0 \/ pc = "register"

\* the sample event every policy corrects, for device id
Violating(id) == StatusEvent(id, JNum(Deg(FloorMinTemperature - 1)))

\* C9: every device of the directory gets one event subscription and one push
\* subscription whatever failed before; a device with a warning stays in the
\* directory and the alias table and its violating event is still corrected
C9_SubscriptionFailuresNonFatal ==
    /\ \A i \in 1..Len(devices) :
        LET id == devices[i].DeviceID
        IN  /\ evCalls[id] = IF PastLoop \/ i < subIdx \/ (i = subIdx /\ pc = "subPush")
                             THEN 1 ELSE 0
            /\ pushCalls[id] = IF PastLoop \/ i < subIdx THEN 1 ELSE 0
    /\ \A w \in warnings :
        /\ \E i \in 1..Len(devices) : devices[i].DeviceID = w.dev
        /\ handler # None => w.dev \in DOMAIN handler.deviceAliases
        /\ (lastMsg # None /\ lastMsg.payload = Violating(w.dev)) =>
                (Issued /\ lastMsg.call.deviceID = w.dev)
    /\ (warnings # {} /\ pc = "fatal") => requests.register > 0

\* C9 witness: both subscriptions of D1 failed, D2 was still subscribed, and a
\* later event of D1 was corrected
C9_Witness ==
    /\ Warning("events", "D1") \in warnings
    /\ Warning("push", "D1") \in warnings
    /\ Len(devices) = 2
    /\ evCalls["D2"] = 1
    /\ pushCalls["D2"] = 1
    /\ Issued
    /\ lastMsg.payload = Violating("D1")
    /\ lastMsg.call.deviceID = "D1"

---------------------------------------------------------------------------
(* Claims about fatal errors, the session and the shutdown *)

\* the setup step whose failure made main exit, by the line it logged
FailedAt(line) == pc = "fatal" /\ fatalMsg.line = line

\* the latest REST exchange of main is op and it returned an error
CallFailed(op) == lastCall # None /\ lastCall.op = op /\ lastCall.err # Nil

\* nothing of the session exists: no connection, no announcement, no message
\* handled, no control command
NoSession ==
    /\ conn = "disconnected"
    /\ ~onConnectPending
    /\ subscribed = {}
    /\ ~active
    /\ lastMsg = None
    /\ nMsgs = 0
    /\ nCmds = 0

\* C11: a failure of config.Load, GetMQTTRoute, GetDeviceList, registerClient,
\* the certificate exchange, createTLSConfig or Connect ends the process at that
\* step: no later step has run, there is no session and no control command, and
\* the exited process takes no further step
C11_FatalSetupAborts ==
    /\ [](/\ (pc # "load" /\ ~(dotenvOK /\ envPAT)) =>
                (FailedAt("Failed to load configuration") /\ cfg = None
                    /\ requests = NoRequests)
          /\ CallFailed("route") =>
                (FailedAt("Failed to get MQTT route") /\ requests.devices = 0)
          /\ CallFailed("devices") =>
                (/\ FailedAt("Failed to get device list")
                 /\ \A d \in DeviceIds : evCalls[d] = 0 /\ pushCalls[d] = 0
                 /\ requests.register = 0)
          /\ CallFailed("register") =>
                (/\ FailedAt("Failed to get MQTT credentials")
                 /\ requests.certificate = 0
                 /\ credentials = None)
          /\ CallFailed("certificate") =>
                (/\ FailedAt("Failed to get MQTT credentials")
                 /\ credentials = None
                 /\ handler = None)
          /\ (credentials # None /\ ~credentials.pemOK /\ pc # "tls") =>
                (/\ FailedAt("Failed to create TLS config")
                 /\ handler = None
                 /\ requests.connect = 0)
          /\ (requests.connect > 0 /\ conn = "disconnected") =>
                FailedAt("Failed to connect to MQTT broker")
          /\ pc = "fatal" => NoSession)
    /\ [][pc = "fatal" => UNCHANGED vars]_vars

\* C11 witness: with two devices subscribed and the credentials issued, the
\* broker connection failed and the process exited without a session
C11_Witness ==
    /\ FailedAt("Failed to connect to MQTT broker")
    /\ Len(devices) = 2
    /\ credentials # None
    /\ handler # None
    /\ requests.connect = 1
    /\ NoSession

\* the topic list returned by the certificate exchange
TopicList == SeqRange(credentials.Subscriptions)

\* C12 as stated: while main waits for the signal, the session is announced
\* Active only with every topic of the topic list subscribed, never with a
\* strict subset of it
C12_ActiveOnlyFullySubscribed ==
    (active /\ pc = "wait") => subscribed = TopicList

\* C13 as stated: after the shutdown signal an unsubscribe is attempted for
\* every topic of the topic list, whatever the earlier attempts returned, and the
\* connection is closed only after all of them; then the process exits
C13_TeardownUnsubscribesAll ==
    /\ pc = "unsubscribe" =>
            (/\ conn # "closed"
             /\ unsubTried = {credentials.Subscriptions[i] : i \in 1..(unsubIdx - 1)})
    /\ pc \in {"disconnect", "done"} => unsubTried = TopicList
    /\ conn = "closed" <=> pc = "done"

\* everything but the record of the handler's invocations
nonMsgVars == <<envVars, pc, fatalMsg, cfg, devices, requests, subVars, lastCall, credentials,
                handler, mqttVars, downVars>>

\* the alias table and the policy the closure captured are those of the
\* directory snapshot and the loaded configuration
HandlerAsBuilt ==
    /\ handler # None
    /\ handler.deviceAliases = AliasMap(devices)
    /\ variant = "threshold" => handler.minTemperature = cfg.MinTemperature

\* C14: the alias table and the correction policy exist before the connection
\* is opened and are never written again; a handler invocation, whether it
\* returns early, succeeds or fails, changes nothing but its own record, and
\* issues at most one SetTemperature call
C14_HandlerLeavesTableAndPolicy ==
    /\ [](conn # "disconnected" => HandlerAsBuilt)
    /\ [][handler # None => (handler' = handler /\ devices' = devices /\ cfg' = cfg)]_vars
    /\ [][nMsgs' # nMsgs =>
            (UNCHANGED nonMsgVars /\ nCmds' \in {nCmds, nCmds + 1})]_vars

\* C14 witness: the handler returned early once and failed a control call once,
\* and the captured table is still the one of the two-device directory
C14_Witness ==
    /\ nMsgs = 2
    /\ nCmds = 1
    /\ Issued
    /\ lastMsg.call.err # Nil
    /\ Len(devices) = 2
    /\ HandlerAsBuilt

---------------------------------------------------------------------------
(* Claims about the control commands *)

\* the latest invocation handled a device-status event whose numeric target
\* violates the policy
ViolatingStatus == StatusWithNumber /\ PolicyViolated(Reported)

\* the value the policy sends: the floor, or the fixed target
PolicyTarget == IF variant = "threshold" THEN cfg.MinTemperature ELSE targetTemperature

\* the latest invocation called SetTemperature for its event's device with the
\* policy's value
Corrected ==
    /\ Issued
    /\ lastMsg.call.deviceID = lastMsg.payload.o.deviceId.s
    /\ lastMsg.call.temperature = PolicyTarget

\* C15: a SetTemperature call is made only by a handler invocation, one per
\* invocation, so a failed call is followed by no call until the next event; a
\* violating event gets the correction for its device with the policy's value
\* whether or not an earlier adjustment of that device failed, and a failure is
\* only recorded
C15_FailedCommandNotRetried ==
    /\ [][nCmds' # nCmds => (nMsgs' = nMsgs + 1 /\ nCmds' = nCmds + 1)]_vars
    /\ [][(nMsgs' # nMsgs /\ ViolatingStatus') => (Corrected' /\ nCmds' = nCmds + 1)]_vars
    /\ [][failures' # failures =>
            (/\ nCmds' = nCmds + 1
             /\ Issued' /\ lastMsg'.call.err # Nil
             /\ failures' = failures \cup {lastMsg'.call.deviceID})]_vars

\* C15 witness: the adjustment of D1 failed, and the next violating event of D1
\* got the same correction again, this time with success
C15_Witness ==
    /\ "D1" \in failures
    /\ nMsgs = 2
    /\ nCmds = 2
    /\ lastMsg.payload = Violating("D1")
    /\ Corrected
    /\ lastMsg.call.err = Nil

\* the setpoint of D1 is below the configured minimum while the session is active
BelowMinimum == active /\ target < Deg(cfg.MinTemperature)

\* the latest invocation called SetTemperature and the call failed
CorrectionFailed == Issued /\ lastMsg.call.err # Nil

EventDevice == lastMsg.payload.o.deviceId.s

\* C17: no cooldown: every device-status event with a violating target has its
\* own SetTemperature call, also when the invocation just before it corrected
\* the same device; no such event is suppressed or merged with another
C17_NoCooldown ==
    /\ [](ViolatingStatus => Corrected)
    /\ [][(/\ ViolatingStatus /\ Corrected
           /\ nMsgs' # nMsgs
           /\ ViolatingStatus' /\ EventDevice' = EventDevice) =>
                (Corrected' /\ nCmds' = nCmds + 1 /\ nMsgs' = nMsgs + 1)]_vars

\* C17 witness: fixed variant: two events of D1 in a row were corrected, the
\* first with a failure, the second, reporting 25, with success
C17_Witness ==
    /\ variant = "fixed"
    /\ nMsgs = 2
    /\ nCmds = 2
    /\ failures = {"D1"}
    /\ lastMsg.payload = StatusEvent("D1", JNum(Deg(targetTemperature + 1)))
    /\ Corrected
    /\ lastMsg.call.err = Nil

\* the latest event carries a string device id that is not in the directory
\* snapshot the alias table was built from
UnknownDevice ==
    /\ lastMsg # None
    /\ lastMsg.payload # Malformed
    /\ IsString(lastMsg.payload.o.deviceId)
    /\ EventDevice \notin DOMAIN handler.deviceAliases

\* the latest event with the device id replaced by that of the known device D1
KnownTwin == JObj([lastMsg.payload.o EXCEPT !.deviceId = JStr(D1.DeviceID)])

\* C18: for an event of a device outside the directory the name resolves to the
\* raw device id, and the decision is the one for the known device D1 reporting
\* the same: a command is issued iff the policy predicate holds, with the
\* policy's value, addressed to the raw id
C18_UnknownDeviceTreatedAlike ==
    UnknownDevice =>
        /\ ResolveAlias(handler.deviceAliases, EventDevice) = EventDevice
        /\ Issued <=> ViolatingStatus
        /\ Issued <=> Decide(KnownTwin).call
        /\ Issued =>
            /\ lastMsg.call.deviceID = EventDevice
            /\ lastMsg.call.alias = EventDevice
            /\ lastMsg.call.temperature = Decide(KnownTwin).temperature
            /\ lastMsg.call.temperature = PolicyTarget

\* C18 witness: a violating event of D2, which is not in the directory, was
\* corrected under its raw id
C18_Witness ==
    /\ UnknownDevice
    /\ D1.DeviceID \in DOMAIN handler.deviceAliases
    /\ lastMsg.payload = Violating("D2")
    /\ Issued
    /\ lastMsg.call.deviceID = "D2"
    /\ lastMsg.call.alias = "D2"

---------------------------------------------------------------------------
(* Claims about GetMQTTCredentials *)

\* the latest exchange of main is op, answered with one of statuses
AnsweredWith(op, statuses) ==
    LastIsHttp({op}) /\ lastCall.resp.status \in statuses

\* C19: GetMQTTCredentials registers, generates the CSR and requests the
\* certificate in this order; the certificate request is sent only after a
\* registration answered 200 or 409; credentials are returned only for a
\* certificate exchange answered 200 with a body that parses; a network error,
\* a CSR error or another status at a step gives an error and no credentials
C19_CredentialsOnlyAfterBothSteps ==
    /\ [](/\ LastIsHttp({"register"}) =>
                (lastCall.err = Nil <=> lastCall.resp.status \in {StatusOK, StatusConflict})
          /\ (lastCall # None /\ lastCall.op = "register" /\ lastCall.resp = NetErr) =>
                lastCall.err # Nil
          /\ CallFailed("register") =>
                (requests.certificate = 0 /\ credentials = None /\ pc = "fatal")
          /\ (lastCall # None /\ lastCall.op = "certificate") =>
                /\ lastCall.err = Nil <=>
                        (AnsweredWith("certificate", {StatusOK}) /\ lastCall.resp.body # BadJSON)
                /\ credentials # None <=> lastCall.err = Nil
                /\ lastCall.err # Nil => pc = "fatal"
          /\ (fatalMsg # None /\ fatalMsg.err = ErrCSR) =>
                (requests.register = 1 /\ requests.certificate = 0 /\ credentials = None)
          /\ credentials # None => (requests.register = 1 /\ requests.certificate = 1))
    /\ [][requests.certificate' # requests.certificate =>
            (/\ AnsweredWith("register", {StatusOK, StatusConflict})
             /\ requests.register = 1
             /\ requests.certificate = 0
             /\ credentials = None)]_vars
    /\ [][credentials' # credentials =>
            (/\ credentials = None
             /\ requests.certificate' = requests.certificate + 1
             /\ lastCall'.op = "certificate"
             /\ lastCall'.err = Nil)]_vars

\* C19 witness: the registration went through, the certificate exchange was
\* answered 200 with a body that does not parse: an error and no credentials
C19_Witness ==
    /\ requests.register = 1
    /\ requests.certificate = 1
    /\ AnsweredWith("certificate", {StatusOK})
    /\ lastCall.resp.body = BadJSON
    /\ lastCall.err = ErrParse
    /\ credentials = None
    /\ FailedAt("Failed to get MQTT credentials")

---------------------------------------------------------------------------
(* Claims about the connection *)

\* C20: a connection loss is logged and leaves main where it is: the process
\* goes on, nothing of the teardown runs; unsubscribe and disconnect only happen
\* after the shutdown signal; a lost connection comes back with the OnConnect
\* callback due, and every OnConnect run calls Subscribe for each topic of the
\* unchanged topic list
C20_LossThenResubscribe ==
    /\ [](conn = "lost" =>
            (/\ nLost > 0
             /\ pc \in {"wait", "unsubscribe", "disconnect"}
             /\ subTried = {}
             /\ ~active))
    /\ [][nLost' # nLost =>
            (/\ nLost' = nLost + 1
             /\ conn = "connected" /\ conn' = "lost"
             /\ UNCHANGED <<pc, fatalMsg, downVars, credentials, handler>>)]_vars
    /\ [][(conn = "lost" /\ conn' # "lost") =>
            \/ conn' = "connected" /\ onConnectPending' /\ pc' = pc
            \/ conn' = "closed" /\ pc = "disconnect"]_vars
    /\ [][(unsubTried' # unsubTried \/ conn' = "closed") =>
            pc \in {"unsubscribe", "disconnect"}]_vars
    /\ [][(onConnectPending /\ ~onConnectPending' /\ conn' = "connected") =>
            (/\ subTried' = TopicList
             /\ credentials' = credentials
             /\ active')]_vars

\* C20 witness: the connection was lost and came back while main waits for the
\* signal, and OnConnect has called Subscribe for both topics again
C20_Witness ==
    /\ nLost = 1
    /\ conn = "connected"
    /\ ~onConnectPending
    /\ pc = "wait"
    /\ Len(credentials.Subscriptions) = 2
    /\ subTried = TopicList
    /\ unsubTried = {}
    /\ active

---------------------------------------------------------------------------
(* Claims about the empty directory and the events the handler ignores *)

\* GetDeviceList returned an empty list without an error
EmptyDirectory ==
    /\ requests.devices = 1
    /\ devices = <<>>
    /\ ~FailedAt("Failed to get device list")

NoDeviceRequests == \A d \in DeviceIds : evCalls[d] = 0 /\ pushCalls[d] = 0

\* C21 as stated: with an empty device list startup sends no per-device
\* subscription request and goes on, and no control command is issued in the run
C21_EmptyListNothingToCorrect ==
    EmptyDirectory => (NoDeviceRequests /\ warnings = {} /\ nCmds = 0)

\* C21 amended: an empty device list is no error; startup then sends no
\* per-device subscription request and goes on to the provisioning with an
\* empty alias table; a control command is issued in such a run only for a
\* violating device-status event, under the raw device id of that event
C21_EmptyListIsValid ==
    /\ FailedAt("Failed to get device list") => CallFailed("devices")
    /\ EmptyDirectory =>
        /\ NoDeviceRequests
        /\ warnings = {}
        /\ pc \notin {"devices", "subEvents", "subPush"}
        /\ credentials # None => requests.register = 1
        /\ handler # None => DOMAIN handler.deviceAliases = {}
        /\ Issued => (ViolatingStatus /\ Corrected /\ lastMsg.call.alias = EventDevice)
        /\ (lastMsg # None /\ ~Issued) => ~ViolatingStatus

\* C21 witness: the device list was empty, the session became active with both
\* topics subscribed, and a violating event of D1 was then corrected
C21_Witness ==
    /\ EmptyDirectory
    /\ NoDeviceRequests
    /\ active
    /\ subscribed = TopicList
    /\ Len(credentials.Subscriptions) = 2
    /\ lastMsg # None
    /\ lastMsg.payload = Violating("D1")
    /\ Corrected

\* the decision the closure takes for the latest payload
LastDecision == Decide(lastMsg.payload)

\* C22: a payload that does not parse is discarded: no SetTemperature call, no
\* log line, nothing but the invocation itself recorded; the invocation after it
\* decides as for any other message
C22_MalformedDiscarded ==
    /\ []((lastMsg # None /\ lastMsg.payload = Malformed) =>
            (~Issued /\ LogLines(LastDecision) = 0))
    /\ [][(nMsgs' # nMsgs /\ lastMsg'.payload = Malformed) =>
            (UNCHANGED nonMsgVars /\ nCmds' = nCmds /\ failures' = failures)]_vars
    /\ [][(lastMsg # None /\ lastMsg.payload = Malformed /\ nMsgs' # nMsgs) =>
            (/\ Issued' <=> ViolatingStatus'
             /\ LogLines(LastDecision)' = IF ViolatingStatus' THEN 2 ELSE 0
             /\ ViolatingStatus' => (Corrected' /\ nCmds' = nCmds + 1))]_vars

\* C22 witness: after a correction that failed a malformed payload was
\* discarded, leaving the command count and the failures as they were
C22_Witness ==
    /\ lastMsg # None
    /\ lastMsg.payload = Malformed
    /\ ~Issued
    /\ nMsgs = 2
    /\ nCmds = 1
    /\ failures # {}

---------------------------------------------------------------------------
(* Claims about the handler behind the serial dispatch *)

\* C23: an invocation blocked in its control call returns (answer, error or
\* client timeout), and the event queued right behind it is then handled to
\* its end, whatever device it belongs to
C23_HandlerTerminates ==
    /\ (inFlight # None) ~> (inFlight = None)
    /\ \A e \in ExternalEvents :
            (inFlight # None /\ queue # <<>> /\ queue[1].payload = e)
                ~> (inFlight = None /\ lastMsg # None /\ lastMsg.payload = e)

\* C23 witness: the call for D1 ended in an error, as it does when the backend
\* stays silent until the timeout, and the event of D2 queued behind it was
\* handled and corrected
C23_Witness ==
    /\ inFlight = None
    /\ queue # <<>>
    /\ "D1" \in failures
    /\ "D2" \notin failures
    /\ lastMsg # None
    /\ lastMsg.payload = Violating("D2")
    /\ Corrected
    /\ lastMsg.call.err = Nil

\* the step in which the library hands the head of the queue to the handler
DispatchStep == inFlight = None /\ queue # <<>> /\ queue' = Tail(queue)

\* C24: the status event a device sends after a successful command, reporting
\* the commanded value, issues no command under either policy; so with the
\* events of finitely many changes at the devices the handler comes to rest
\* with nothing queued and no call in progress
C24_NoFeedbackLoop ==
    /\ [](\A d \in DeviceIds :
            ~Decide(StatusEvent(d, JNum(Deg(PolicyTarget)))).call)
    /\ [](inFlight # None => ~inFlight.echo)
    /\ [][(DispatchStep /\ queue[1].echo) => (inFlight' = None /\ nCmds' = nCmds)]_vars
    /\ <>[](queue = <<>> /\ inFlight = None)

\* C24 witness: threshold variant with a minimum above the floor: D1 was
\* corrected, reported the minimum, and that report was handled without a
\* command, leaving nothing queued
C24_Witness ==
    /\ variant = "threshold"
    /\ cfg.MinTemperature > FloorMinTemperature
    /\ nCmds > 0
    /\ lastMsg # None
    /\ lastMsg.payload = StatusEvent("D1", JNum(Deg(cfg.MinTemperature)))
    /\ ~Issued
    /\ queue = <<>>
    /\ inFlight = None

---------------------------------------------------------------------------
(* Claims about the fields the handler checks and the value it sends *)

\* the latest event is a parsed device-status event
StatusEventHandled ==
    /\ lastMsg # None
    /\ lastMsg.payload # Malformed
    /\ lastMsg.payload.o.pushType = JStr(DeviceStatus)

\* the value at report.temperature.targetTemperature of the latest event, or
\* JAbsent where the path to it does not exist
TargetField ==
    IF /\ IsObject(lastMsg.payload.o.report)
       /\ IsObject(lastMsg.payload.o.report.o.temperature)
    THEN lastMsg.payload.o.report.o.temperature.o.targetTemperature
    ELSE JAbsent

\* C25: a device-status event whose deviceId is absent or not a string issues
\* no command, whatever target it reports; every command is addressed to the
\* non-empty string its event carries as deviceId
C25_NoCommandWithoutDeviceId ==
    /\ (StatusEventHandled /\ ~IsString(lastMsg.payload.o.deviceId)) => ~Issued
    /\ Issued =>
        /\ IsString(lastMsg.payload.o.deviceId)
        /\ lastMsg.call.deviceID = EventDevice
        /\ lastMsg.call.deviceID # ""

\* C25 witness: a device-status event without deviceId reported a violating
\* number and was left alone
C25_Witness ==
    /\ StatusEventHandled
    /\ lastMsg.payload.o.deviceId = JAbsent
    /\ IsNumber(TargetField)
    /\ PolicyViolated(TargetField.n)
    /\ ~Issued

\* C26: threshold variant: every command carries a value that is at least 21
\* and greater than the truncated target its event reported, so the reported
\* target itself is below the value sent
C26_ThresholdOnlyRaises ==
    (variant = "threshold" /\ Issued) =>
        /\ StatusWithNumber
        /\ lastMsg.call.temperature >= 21
        /\ lastMsg.call.temperature > TruncToInt(Reported)
        /\ Deg(lastMsg.call.temperature) > Reported

\* C26 witness: a fractional target below zero, truncated to 0, was raised to
\* a minimum above the floor
C26_Witness ==
    /\ variant = "threshold"
    /\ Issued
    /\ StatusWithNumber
    /\ Reported < 0
    /\ Reported % TempScale # 0
    /\ TruncToInt(Reported) = 0
    /\ lastMsg.call.temperature > FloorMinTemperature

\* C27: a device-status event whose targetTemperature is present but not a
\* number (a string, null, a boolean, an object) issues no command under
\* either policy
C27_NonNumberTargetIgnored ==
    (StatusEventHandled /\ TargetField # JAbsent /\ ~IsNumber(TargetField)) => ~Issued

\* C27 witness: fixed variant: the known device D1 reported the string "18" as
\* its target and no command was issued
C27_Witness ==
    /\ variant = "fixed"
    /\ StatusEventHandled
    /\ lastMsg.payload.o.deviceId = JStr("D1")
    /\ TargetField = JStr("18")
    /\ ~Issued

====
